---- MODULE Spec2Model ----
(***************************************************************************)
(* rpyc.core.async_.AsyncResult: one pending result shared by the caller   *)
(* threads of a connection.  Every method is modelled at the granularity   *)
(* of its reads and writes of the object's slots, so that threads          *)
(* interleave between them as Python threads do.  The connection (serve,   *)
(* poll_all) and rpyc.lib.Timeout are collaborators outside async_.py.     *)
(***************************************************************************)
EXTENDS Naturals, Sequences, FiniteSets

\* ---- bounds of the model -------------------------------------------------
MaxTime == 1
MaxCalls == 3

Threads == {"t1", "t2"}
None == "None"
\* the (is_exc, obj) pairs a reply carries: a value, an exception
Replies == {[is_exc |-> "False", obj |-> "p1"], [is_exc |-> "True", obj |-> "p2"]}
\* timeouts a caller passes to set_expiry (None, or seconds relative to now)
Timeouts == {0, 1}

VARIABLES
    is_ready,   \* self._is_ready: the Event's flag
    is_exc,     \* self._is_exc: None, or the is_exc argument stored
    obj,        \* self._obj: None, or the payload stored
    callbacks,  \* self._callbacks: list of callback ids
    ttl,        \* self._ttl: a Timeout
    now,        \* time.time()
    avail,      \* connection: an inbound message is ready to be received
    pc,         \* per thread: position in the method it executes
    op,         \* per thread: the public method it called
    carg,       \* per thread: arguments of the __call__ it executes
    idx,        \* per thread: position of __call__'s for loop in the list
    func,       \* per thread: argument of add_callback
    tseen,      \* per thread: the Timeout wait read at its loop test
    vexc,       \* per thread: the _is_exc value read at line 104
    res,        \* per thread: how its last finished call ended
    calls,      \* number of public method calls started
    nextcb,     \* number of callback functions handed to add_callback
    invoked,    \* log: callback invocations, in order
    lastCall,   \* log: how the latest __call__ was treated
    lateExpiry  \* log: set_expiry was called after another method call

result == <<is_ready, is_exc, obj, callbacks, ttl>>
conn == <<avail>>
locals == <<carg, idx, func, tseen, vexc>>
logs == <<invoked, lastCall, lateExpiry>>
vars == <<is_ready, is_exc, obj, callbacks, ttl, now, avail, pc, op,
          carg, idx, func, tseen, vexc, res, calls, nextcb, invoked, lastCall,
          lateExpiry>>

\* ---- rpyc.lib.Timeout ----------------------------------------------------
\* Timeout(None): never expires
Never == [finite |-> FALSE, tmax |-> 0]

\* Timeout(timeout): expires timeout seconds from now
Timeout(timeout) == [finite |-> TRUE, tmax |-> now + timeout]

\* Timeout.expired()
TimeoutExpired(tm) == tm.finite /\ now >= tm.tmax

\* ---- helpers -------------------------------------------------------------
NoArg == [is_exc |-> None, obj |-> None]
NoRes == [op |-> "none", kind |-> "none", val |-> None]

\* Python truthiness of a stored _is_exc (None and False are falsy)
Truthy(x) == x = "True"

\* AsyncResult.expired (line 93)
Expired == ~is_ready /\ TimeoutExpired(ttl)

\* the __call__ positions: the dispatch path is one logical context
InCall(t) == pc[t] \in {"c_check", "c_exc", "c_obj", "c_set", "c_loop", "c_del"}
Dispatching == \E t \in Threads : InCall(t)

\* where a thread continues when the __call__ it dispatched returns:
\* serve() returns True to wait; poll_all() goes on draining
AfterCall(t) == IF op[t] \in {"wait", "value"} THEN "w_evwait" ELSE "r_poll"

Return(t, kind, val) ==
    /\ pc' = [pc EXCEPT ![t] = "idle"]
    /\ res' = [res EXCEPT ![t] = [op |-> op[t], kind |-> kind, val |-> val]]
    /\ op' = [op EXCEPT ![t] = "none"]

\* ---- initial state: AsyncResult.__init__ --------------------------------
Init ==
    /\ is_ready = FALSE
    /\ is_exc = None
    /\ obj = None
    /\ callbacks = <<>>
    /\ ttl = Never
    /\ now = 0
    /\ avail = FALSE
    /\ pc = [t \in Threads |-> "idle"]
    /\ op = [t \in Threads |-> "none"]
    /\ carg = [t \in Threads |-> NoArg]
    /\ idx = [t \in Threads |-> 0]
    /\ func = [t \in Threads |-> 0]
    /\ tseen = [t \in Threads |-> Never]
    /\ vexc = [t \in Threads |-> None]
    /\ res = [t \in Threads |-> NoRes]
    /\ calls = 0
    /\ nextcb = 0
    /\ invoked = <<>>
    /\ lastCall = "none"
    /\ lateExpiry = FALSE

\* ---- environment ---------------------------------------------------------
\* a Timeout that can still expire: the only way the clock is observed
Running(tm) == tm.finite /\ now < tm.tmax

\* time passes; the clock is advanced only while some Timeout is running
\* (otherwise nothing the program reads depends on it)
Tick ==
    /\ now < MaxTime
    /\ Running(ttl) \/ \E t \in Threads : Running(tseen[t])
    /\ now' = now + 1
    /\ UNCHANGED <<result, conn, pc, op, locals, res, calls, nextcb, logs>>

\* an inbound message reaches the connection
Arrive ==
    /\ ~avail
    /\ avail' = TRUE
    /\ UNCHANGED <<result, now, pc, op, locals, res, calls, nextcb, logs>>

\* ---- a thread calls a public method -------------------------------------
Begin(t, o, p) ==
    /\ pc[t] = "idle"
    /\ calls < MaxCalls
    /\ calls' = calls + 1
    /\ op' = [op EXCEPT ![t] = o]
    /\ pc' = [pc EXCEPT ![t] = p]

\* wait() and value (which starts with self.wait())
CallWait(t) ==
    /\ \E o \in {"wait", "value"} : Begin(t, o, "w_loop")
    /\ UNCHANGED <<result, now, conn, locals, res, nextcb, logs>>

\* set_expiry(timeout): self._ttl = Timeout(timeout)
SetExpiry(t) ==
    /\ pc[t] = "idle"
    /\ calls < MaxCalls
    /\ calls' = calls + 1
    /\ \E tm \in {Never} \cup {Timeout(s) : s \in Timeouts} : ttl' = tm
    /\ res' = [res EXCEPT ![t] = [op |-> "set_expiry", kind |-> "ok", val |-> None]]
    /\ lateExpiry' = (lateExpiry \/ calls > 0)
    /\ UNCHANGED <<is_ready, is_exc, obj, callbacks, now, conn, pc, op, locals,
                   nextcb, invoked, lastCall>>

\* ---- wait ----------------------------------------------------------------
\* line 47: while not self._is_ready.is_set() and not self._ttl.expired();
\* the Timeout read here is the one line 48 hands to serve
\* (variant: the test of the deadline inverted)
LoopTest_inverted == ~is_ready /\ TimeoutExpired(ttl)

LoopTest == ~is_ready /\ ~TimeoutExpired(ttl)

WaitLoop(t) ==
    /\ pc[t] = "w_loop"
    /\ tseen' = [tseen EXCEPT ![t] = ttl]
    /\ pc' = [pc EXCEPT ![t] = IF LoopTest THEN "w_serve" ELSE "w_final"]
    /\ UNCHANGED <<result, now, conn, op, carg, idx, func, vexc, res, calls,
                   nextcb, logs>>

\* line 48, self._conn.serve(self._ttl) processes one inbound message that is
\* not a reply to this result, and returns True
ServeOther(t) ==
    /\ pc[t] = "w_serve"
    /\ avail
    /\ avail' = FALSE
    /\ pc' = [pc EXCEPT ![t] = "w_evwait"]
    /\ UNCHANGED <<result, now, op, locals, res, calls, nextcb, logs>>

\* line 48, serve processes a reply to this result: the dispatch path calls
\* self(is_exc, obj) on this thread before serve returns True
ServeReply(t) ==
    /\ pc[t] = "w_serve"
    /\ avail
    /\ ~Dispatching
    /\ avail' = FALSE
    /\ \E r \in Replies : carg' = [carg EXCEPT ![t] = r]
    /\ pc' = [pc EXCEPT ![t] = "c_check"]
    /\ UNCHANGED <<result, now, op, idx, func, tseen, vexc, res, calls,
                   nextcb, logs>>

\* line 48, serve finds no message before the deadline it was given, and
\* returns False
ServeTimeout(t) ==
    /\ pc[t] = "w_serve"
    /\ ~avail
    /\ TimeoutExpired(tseen[t])
    /\ pc' = [pc EXCEPT ![t] = "w_loop"]
    /\ UNCHANGED <<result, now, conn, op, locals, res, calls, nextcb, logs>>

\* line 50: self._is_ready.wait(), no timeout: returns when the flag is set
EventWait(t) ==
    /\ pc[t] = "w_evwait"
    /\ is_ready
    /\ pc' = [pc EXCEPT ![t] = "w_loop"]
    /\ UNCHANGED <<result, now, conn, op, locals, res, calls, nextcb, logs>>

\* lines 51-52: if not self._is_ready.is_set(): raise AsyncResultTimeout
WaitFinal(t) ==
    /\ pc[t] = "w_final"
    /\ IF ~is_ready
         THEN Return(t, "timeout", None)
         ELSE IF op[t] = "wait"
                THEN Return(t, "ok", None)
                ELSE /\ pc' = [pc EXCEPT ![t] = "v_exc"]
                     /\ UNCHANGED <<op, res>>
    /\ tseen' = [tseen EXCEPT ![t] = Never]
    /\ UNCHANGED <<result, now, conn, carg, idx, func, vexc, calls, nextcb, logs>>

\* ---- value ---------------------------------------------------------------
\* line 104: if self._is_exc
ValueTest(t) ==
    /\ pc[t] = "v_exc"
    /\ vexc' = [vexc EXCEPT ![t] = is_exc]
    /\ pc' = [pc EXCEPT ![t] = "v_obj"]
    /\ UNCHANGED <<result, now, conn, op, carg, idx, func, tseen, res, calls,
                   nextcb, logs>>

\* (variant: an exception is replaced by a generic error)
ValueOutcome_wrapped(e, o) ==
    [kind |-> IF Truthy(e) THEN "raise" ELSE "return",
     val |-> IF Truthy(e) THEN "GenericError" ELSE o]

\* what value hands to its caller, given the _is_exc and _obj it read
ValueOutcome(e, o) == [kind |-> IF Truthy(e) THEN "raise" ELSE "return", val |-> o]

\* lines 105-107: raise self._obj / return self._obj
ValueEnd(t) ==
    /\ pc[t] = "v_obj"
    /\ LET out == ValueOutcome(vexc[t], obj) IN Return(t, out.kind, out.val)
    /\ vexc' = [vexc EXCEPT ![t] = None]
    /\ UNCHANGED <<result, now, conn, carg, idx, func, tseen, calls, nextcb, logs>>

\* ---- __call__ ------------------------------------------------------------
\* (variant: the test of line 34 left out)
Discarded_never == FALSE

\* what __call__ tests before it stores anything (line 34)
Discarded == Expired

\* lines 34-35: if self.expired: return
CallCheck(t) ==
    /\ pc[t] = "c_check"
    /\ IF Discarded
         THEN /\ pc' = [pc EXCEPT ![t] = AfterCall(t)]
              /\ carg' = [carg EXCEPT ![t] = NoArg]
              /\ lastCall' = "discarded"
         ELSE /\ pc' = [pc EXCEPT ![t] = "c_exc"]
              /\ lastCall' = "accepted"
              /\ UNCHANGED carg
    /\ UNCHANGED <<result, now, conn, op, idx, func, tseen, vexc, res, calls,
                   nextcb, invoked, lateExpiry>>

\* line 36: self._is_exc = is_exc
CallStoreExc(t) ==
    /\ pc[t] = "c_exc"
    /\ is_exc' = carg[t].is_exc
    /\ pc' = [pc EXCEPT ![t] = "c_obj"]
    /\ UNCHANGED <<is_ready, obj, callbacks, ttl, now, conn, op, locals, res,
                   calls, nextcb, logs>>

\* line 37: self._obj = obj
CallStoreObj(t) ==
    /\ pc[t] = "c_obj"
    /\ obj' = carg[t].obj
    /\ pc' = [pc EXCEPT ![t] = "c_set"]
    /\ UNCHANGED <<is_ready, is_exc, callbacks, ttl, now, conn, op, locals, res,
                   calls, nextcb, logs>>

\* (variant: set() flips the flag)
EventSet_flipped == ~is_ready

\* threading.Event.set(): the flag becomes true, whatever it was
EventSet == TRUE

\* line 38: self._is_ready.set()
CallSet(t) ==
    /\ pc[t] = "c_set"
    /\ is_ready' = EventSet
    /\ idx' = [idx EXCEPT ![t] = 1]
    /\ pc' = [pc EXCEPT ![t] = "c_loop"]
    /\ UNCHANGED <<is_exc, obj, callbacks, ttl, now, conn, op, carg, func, tseen,
                   vexc, res, calls, nextcb, logs>>

\* (variant: the list walked from its end)
LoopItem_reversed(i) == callbacks[Len(callbacks) + 1 - i]

\* the callback the for loop of line 39 takes at position i of the list
LoopItem(i) == callbacks[i]

\* lines 39-40: for cb in self._callbacks: cb(self)
CallLoop(t) ==
    /\ pc[t] = "c_loop"
    /\ IF idx[t] <= Len(callbacks)
         THEN /\ invoked' = Append(invoked, [f |-> LoopItem(idx[t]), by |-> "call"])
              /\ idx' = [idx EXCEPT ![t] = idx[t] + 1]
              /\ UNCHANGED pc
         ELSE /\ pc' = [pc EXCEPT ![t] = "c_del"]
              /\ idx' = [idx EXCEPT ![t] = 0]
              /\ UNCHANGED invoked
    /\ UNCHANGED <<result, now, conn, op, carg, func, tseen, vexc, res, calls,
                   nextcb, lastCall, lateExpiry>>

\* (variant: a finished __call__ resets the deadline)
CallDel_reset(t) ==
    /\ pc[t] = "c_del"
    /\ callbacks' = <<>>
    /\ ttl' = Never
    /\ carg' = [carg EXCEPT ![t] = NoArg]
    /\ pc' = [pc EXCEPT ![t] = AfterCall(t)]
    /\ UNCHANGED <<is_ready, is_exc, obj, now, conn, op, idx, func, tseen,
                   vexc, res, calls, nextcb, logs>>

\* line 41: del self._callbacks[:], and __call__ returns
CallDel(t) ==
    /\ pc[t] = "c_del"
    /\ callbacks' = <<>>
    /\ carg' = [carg EXCEPT ![t] = NoArg]
    /\ pc' = [pc EXCEPT ![t] = AfterCall(t)]
    /\ UNCHANGED <<is_ready, is_exc, obj, ttl, now, conn, op, idx, func, tseen,
                   vexc, res, calls, nextcb, logs>>

\* ---- add_callback --------------------------------------------------------
CallAddCallback(t) ==
    /\ Begin(t, "add_callback", "a_check")
    /\ nextcb' = nextcb + 1
    /\ func' = [func EXCEPT ![t] = nextcb + 1]
    /\ UNCHANGED <<result, now, conn, carg, idx, tseen, vexc, res, logs>>

\* (variant: the callback appended whatever the flag)
AddBranch_append == "a_append"

\* (variant: the test of line 62 inverted)
AddBranch_inverted == IF is_ready THEN "a_append" ELSE "a_invoke"

\* line 62: if self._is_ready.is_set()
AddBranch == IF is_ready THEN "a_invoke" ELSE "a_append"

AddCheck(t) ==
    /\ pc[t] = "a_check"
    /\ pc' = [pc EXCEPT ![t] = AddBranch]
    /\ UNCHANGED <<result, now, conn, op, locals, res, calls, nextcb, logs>>

\* line 63: func(self)
AddInvoke(t) ==
    /\ pc[t] = "a_invoke"
    /\ invoked' = Append(invoked, [f |-> func[t], by |-> "add_callback"])
    /\ Return(t, "invoked", None)
    /\ func' = [func EXCEPT ![t] = 0]
    /\ UNCHANGED <<result, now, conn, carg, idx, tseen, vexc, calls, nextcb,
                   lastCall, lateExpiry>>

\* line 65: self._callbacks.append(func)
AddAppend(t) ==
    /\ pc[t] = "a_append"
    /\ callbacks' = Append(callbacks, func[t])
    /\ Return(t, "appended", None)
    /\ func' = [func EXCEPT ![t] = 0]
    /\ UNCHANGED <<is_ready, is_exc, obj, ttl, now, conn, carg, idx, tseen, vexc,
                   calls, nextcb, logs>>

\* ---- ready, error, expired -----------------------------------------------
CallReady(t) ==
    /\ \E o \in {"ready", "error"} : Begin(t, o, "r_check")
    /\ UNCHANGED <<result, now, conn, locals, res, nextcb, logs>>

\* (variant: ready answers the opposite of the flag)
ReadyEnd_negated(t, r) ==
    IF r /\ op[t] = "error"
      THEN /\ pc' = [pc EXCEPT ![t] = "e_exc"]
           /\ UNCHANGED <<op, res>>
      ELSE Return(t, IF r THEN "False" ELSE "True", None)

\* ready's answer, and error's when ready is false (line 88: ready and _is_exc)
ReadyEnd(t, r) ==
    IF r /\ op[t] = "error"
      THEN /\ pc' = [pc EXCEPT ![t] = "e_exc"]
           /\ UNCHANGED <<op, res>>
      ELSE Return(t, IF r THEN "True" ELSE "False", None)

\* lines 78-81: True when set; False when the Timeout has expired
ReadyCheck(t) ==
    /\ pc[t] = "r_check"
    /\ IF is_ready
         THEN ReadyEnd(t, TRUE)
         ELSE IF TimeoutExpired(ttl)
                THEN ReadyEnd(t, FALSE)
                ELSE /\ pc' = [pc EXCEPT ![t] = "r_poll"]
                     /\ UNCHANGED <<op, res>>
    /\ UNCHANGED <<result, now, conn, locals, calls, nextcb, logs>>

\* line 82, self._conn.poll_all() processes a buffered message that is not a
\* reply to this result
PollOther(t) ==
    /\ pc[t] = "r_poll"
    /\ avail
    /\ avail' = FALSE
    /\ UNCHANGED <<result, now, pc, op, locals, res, calls, nextcb, logs>>

\* line 82, poll_all processes a buffered reply to this result
PollReply(t) ==
    /\ pc[t] = "r_poll"
    /\ avail
    /\ ~Dispatching
    /\ avail' = FALSE
    /\ \E r \in Replies : carg' = [carg EXCEPT ![t] = r]
    /\ pc' = [pc EXCEPT ![t] = "c_check"]
    /\ UNCHANGED <<result, now, op, idx, func, tseen, vexc, res, calls,
                   nextcb, logs>>

\* line 82-83: nothing is buffered any more, poll_all returns;
\* return self._is_ready.is_set()
PollEnd(t) ==
    /\ pc[t] = "r_poll"
    /\ ~avail
    /\ ReadyEnd(t, is_ready)
    /\ UNCHANGED <<result, now, conn, locals, calls, nextcb, logs>>

\* (variant: error answers what ready answered)
ErrorEnd_ready(t) ==
    /\ pc[t] = "e_exc"
    /\ Return(t, "True", None)
    /\ UNCHANGED <<result, now, conn, locals, calls, nextcb, logs>>

\* line 88: ... and self._is_exc
ErrorEnd(t) ==
    /\ pc[t] = "e_exc"
    /\ Return(t, is_exc, None)
    /\ UNCHANGED <<result, now, conn, locals, calls, nextcb, logs>>

\* line 93: return not self._is_ready.is_set() and self._ttl.expired()
QueryExpired(t) ==
    /\ pc[t] = "idle"
    /\ calls < MaxCalls
    /\ calls' = calls + 1
    /\ res' = [res EXCEPT ![t] = [op |-> "expired",
                                 kind |-> IF Expired THEN "True" ELSE "False",
                                 val |-> None]]
    /\ UNCHANGED <<result, now, conn, pc, op, locals, nextcb, logs>>

\* ---- specification -------------------------------------------------------
Step(t) ==
    \/ CallWait(t)
    \/ SetExpiry(t)
    \/ WaitLoop(t)
    \/ ServeOther(t)
    \/ ServeReply(t)
    \/ ServeTimeout(t)
    \/ EventWait(t)
    \/ WaitFinal(t)
    \/ ValueTest(t)
    \/ ValueEnd(t)
    \/ CallCheck(t)
    \/ CallStoreExc(t)
    \/ CallStoreObj(t)
    \/ CallSet(t)
    \/ CallLoop(t)
    \/ CallDel(t)
    \/ CallAddCallback(t)
    \/ AddCheck(t)
    \/ AddInvoke(t)
    \/ AddAppend(t)
    \/ CallReady(t)
    \/ ReadyCheck(t)
    \/ PollOther(t)
    \/ PollReply(t)
    \/ PollEnd(t)
    \/ ErrorEnd(t)
    \/ QueryExpired(t)

Next == Tick \/ Arrive \/ \E t \in Threads : Step(t)

Spec == Init /\ [][Next]_vars

\* ---- vocabulary of the properties ---------------------------------------
\* the thread is inside wait() (also as the first statement of value)
InWait(t) == pc[t] \in {"w_loop", "w_serve", "w_evwait", "w_final"}

\* the step is thread t leaving position p
Leaves(t, p) == pc[t] = p /\ pc'[t] # p

IsCallEntry(e) == e.by = "call"

\* the callbacks invoked by __call__'s loop so far, in order
Drained == [i \in 1..Len(SelectSeq(invoked, IsCallEntry)) |->
              SelectSeq(invoked, IsCallEntry)[i].f]

Times(f, log) == Cardinality({i \in 1..Len(log) : log[i].f = f})

InList(f) == \E i \in 1..Len(callbacks) : callbacks[i] = f

WaitOutcome(t, k) == res[t].op = "wait" /\ res[t].kind = k

\* the value access of thread t delivered the two arguments of one __call__
ValueDelivered(t) ==
    /\ res[t].op = "value"
    /\ \E r \in Replies :
          /\ res[t].kind = ValueOutcome(r.is_exc, r.obj).kind
          /\ res[t].val = r.obj

\* ---- C1 -------------------------------------------------------------------
\* C1: exactly-once completion. Once the result is ready, no later step (in
\* particular no later __call__) changes the stored is_exc or payload: after
\* complete(a, b) then complete(c, d) the stored outcome is still (a, b).
C1_ExactlyOnce == [][is_ready => (is_exc' = is_exc /\ obj' = obj)]_vars

\* ---- C2 -------------------------------------------------------------------
\* C2: late completion is a no-op. A __call__ that tests an expired result
\* (not ready, deadline passed) returns at once: ready stays false, is_exc,
\* payload and the callback list are unchanged, no callback is invoked, and
\* the result is still expired afterwards, so that a wait or value that
\* follows raises the timeout error.
C2_LateCompletionNoOp ==
    [][\A t \in Threads :
         (Leaves(t, "c_check") /\ Expired) =>
            /\ pc'[t] = AfterCall(t)
            /\ UNCHANGED <<is_ready, is_exc, obj, callbacks, ttl, invoked>>
            /\ Expired'
            /\ ~LoopTest']_vars

\* a late reply has been discarded and the result is still expired
C2_Witness ==
    /\ lastCall = "discarded"
    /\ Expired
    /\ ~Dispatching
    /\ callbacks # <<>>

\* ---- C3 -------------------------------------------------------------------
\* C3: callback ordering. When the loop of an accepted __call__ ends, the
\* callbacks of the list are exactly the last ones that loop invoked, each
\* once and in the order of registration; and no callback is ever invoked
\* twice, by anyone.
C3_CallbackOrdering ==
    [][/\ \A t \in Threads :
            (pc[t] = "c_loop" /\ pc'[t] = "c_del") =>
               /\ Len(Drained) >= Len(callbacks)
               /\ SubSeq(Drained, Len(Drained) - Len(callbacks) + 1, Len(Drained))
                     = callbacks
       /\ \A i \in 1..Len(invoked') : Times(invoked'[i].f, invoked') = 1]_vars

\* two callbacks were registered, then invoked in that order by __call__,
\* and the list was cleared
C3_Witness ==
    /\ is_ready
    /\ ~Dispatching
    /\ callbacks = <<>>
    /\ invoked = <<[f |-> 1, by |-> "call"], [f |-> 2, by |-> "call"]>>

\* ---- C4 -------------------------------------------------------------------
\* C4: immediate invocation. add_callback(f) on a ready result takes the
\* invoking branch, and returns by the very step that invokes f: f is invoked
\* once, before add_callback returns, and is not put on the callback list.
C4_ImmediateInvocation ==
    [][\A t \in Threads :
         /\ (Leaves(t, "a_check") /\ is_ready) =>
               /\ pc'[t] = "a_invoke"
               /\ UNCHANGED <<callbacks, invoked>>
         /\ Leaves(t, "a_invoke") =>
               /\ pc'[t] = "idle"
               /\ invoked' = Append(invoked, [f |-> func[t], by |-> "add_callback"])
               /\ Times(func[t], invoked') = 1
               /\ callbacks' = callbacks
               /\ ~InList(func[t])]_vars

\* add_callback was called on a ready result and has invoked its argument
C4_Witness ==
    \E t \in Threads :
        /\ res[t].op = "add_callback"
        /\ res[t].kind = "invoked"
        /\ is_ready
        /\ \E i \in 1..Len(invoked) : invoked[i].by = "add_callback"

\* ---- C5 -------------------------------------------------------------------
\* C5: outcome of wait. wait raises the timeout error only when the result is
\* not ready and the deadline it tested is finite and has passed; it returns
\* normally only when the result is ready; and on a ready result it returns
\* normally whatever the deadline.
C5_WaitOutcome ==
    [][\A t \in Threads :
         Leaves(t, "w_final") =>
            /\ (res'[t].kind = "timeout" /\ pc'[t] = "idle") =>
                  (~is_ready /\ tseen[t].finite /\ now >= tseen[t].tmax)
            /\ (pc'[t] = "v_exc" \/ (pc'[t] = "idle" /\ res'[t].kind = "ok")) => is_ready
            /\ is_ready => (pc'[t] = "v_exc" \/ (pc'[t] = "idle" /\ res'[t].kind = "ok"))]_vars

\* a wait has raised the timeout error
C5_Witness == \E t \in Threads : WaitOutcome(t, "timeout") /\ ~is_ready

\* ---- C6 -------------------------------------------------------------------
\* C6: blocking wait releases on completion. With no deadline, once a
\* __call__ has been accepted and has returned, a thread inside wait is not
\* blocked: it has a step to take (towards returning from wait).
C6_WaitReleased ==
    \A t \in Threads :
        (InWait(t) /\ ~ttl.finite /\ ~tseen[t].finite /\ is_ready /\ ~Dispatching)
            => ENABLED Step(t)

\* ---- C7 -------------------------------------------------------------------
\* C7: exception propagation by value. value hands its caller exactly the
\* stored payload, raised when the is_exc it read is true and returned
\* otherwise, and only on a ready result; its only other outcome is the
\* timeout error, raised by wait's final test on a result that is not ready.
C7_PropagationByValue ==
    [][\A t \in Threads :
         /\ Leaves(t, "v_obj") =>
               /\ is_ready
               /\ pc'[t] = "idle"
               /\ res'[t].op = "value"
               /\ res'[t].val = obj
               /\ res'[t].kind = (IF Truthy(vexc[t]) THEN "raise" ELSE "return")
         /\ (op[t] = "value" /\ pc[t] # "idle" /\ pc'[t] = "idle" /\ ~Leaves(t, "v_obj")) =>
               /\ pc[t] = "w_final"
               /\ ~is_ready
               /\ res'[t].kind = "timeout"]_vars

\* value has raised the stored exception
C7_Witness ==
    \E t \in Threads :
        /\ res[t] = [op |-> "value", kind |-> "raise", val |-> "p2"]
        /\ is_exc = "True"
        /\ obj = "p2"

\* ---- C8 -------------------------------------------------------------------
\* C8: idempotent observation. Any two value accesses that delivered the
\* outcome of the result delivered the same outcome.
C8_IdempotentObservation ==
    \A t, u \in Threads :
        (ValueDelivered(t) /\ ValueDelivered(u)) =>
            (res[t].kind = res[u].kind /\ res[t].val = res[u].val)

\* ---- C9 -------------------------------------------------------------------
\* C9: wait terminates by the deadline. A thread inside a wait that works
\* against the result's deadline, on a result that is not completed and whose
\* deadline has passed, is not blocked: it has a step to take (towards raising
\* the timeout error).
C9_WaitEndsByDeadline ==
    \A t \in Threads :
        (InWait(t) /\ tseen[t] = ttl /\ Expired /\ ~Dispatching) => ENABLED Step(t)

\* ---- C10 ------------------------------------------------------------------
\* C10: concurrent waiters agree. With the deadline set before any other
\* call, whatever the interleaving of the waits, the __call__ and the passing
\* of the deadline, it never happens that the wait of one thread has raised
\* the timeout error and the wait of another thread has returned normally.
C10_WaitersAgree ==
    ~lateExpiry =>
        ~ \E t, u \in Threads : WaitOutcome(t, "timeout") /\ WaitOutcome(u, "ok")

\* ---- C11 ------------------------------------------------------------------
\* some thread is inside add_callback
Adding == \E t \in Threads : pc[t] \in {"a_check", "a_invoke", "a_append"}

\* C11: no lost callback under concurrency. Once an accepted __call__ has
\* returned and every add_callback has returned, each function handed to
\* add_callback has been invoked exactly once, and none sits in the callback
\* list, whatever the interleaving of add_callback's steps with __call__'s.
C11_NoLostCallback ==
    (is_ready /\ ~Dispatching /\ ~Adding) =>
        /\ \A f \in 1..nextcb : Times(f, invoked) = 1
        /\ callbacks = <<>>

\* ---- C12 ------------------------------------------------------------------
\* C12: monotonic readiness. A fresh result is not ready; no step of any
\* operation makes a ready result unready; and the only step that makes the
\* result ready is line 38 of a __call__ that was accepted at line 34.
C12_MonotonicReadiness ==
    /\ ~is_ready
    /\ [][/\ is_ready => is_ready'
          /\ (~is_ready /\ is_ready') =>
                /\ lastCall = "accepted"
                /\ \E t \in Threads : pc[t] = "c_set" /\ pc'[t] = "c_loop"]_vars

\* the result is still ready after its deadline was set and has passed and a
\* wait has returned
C12_Witness ==
    /\ is_ready
    /\ TimeoutExpired(ttl)
    /\ ~Dispatching
    /\ \E t \in Threads : WaitOutcome(t, "ok")

\* ---- C13 ------------------------------------------------------------------
\* the last call some thread finished reported the result expired: the
\* expired query answered true, or wait or value raised the timeout error
ExpiryObserved ==
    \E t \in Threads :
        \/ res[t].op = "expired" /\ res[t].kind = "True"
        \/ res[t].op \in {"wait", "value"} /\ res[t].kind = "timeout"

\* C13: expiry is final. With the deadline set before any other call, once
\* the expired query has answered true or a wait or value has raised the
\* timeout error, the result is not ready in any later state, whatever
\* __call__ started before or after the deadline passed.
C13_ExpiryIsFinal == (~lateExpiry /\ ExpiryObserved) => ~is_ready

\* ---- C14 ------------------------------------------------------------------
\* a __call__ has set the event and its loop has not yet invoked every
\* callback of the list
CallbackPending ==
    \E u \in Threads : pc[u] = "c_loop" /\ idx[u] <= Len(callbacks)

\* C14: order of steps in an accepted __call__. A thread blocked in wait on
\* the event (line 50) is released only after the __call__ has invoked every
\* registered callback: no release happens while a callback of the list is
\* still to be invoked.
C14_ReleaseAfterCallbacks ==
    [][\A t \in Threads : Leaves(t, "w_evwait") => ~CallbackPending]_vars

\* ---- C15 ------------------------------------------------------------------
\* thread t is inside the blocking serve path of wait
InServe(t) == pc[t] \in {"w_serve", "w_evwait"}

\* the step is the ready query of thread t returning the answer k
ReadyReturns(t, k) ==
    /\ op[t] = "ready"
    /\ pc'[t] = "idle"
    /\ res'[t] = [op |-> "ready", kind |-> k, val |-> None]

\* C15: the ready query. On a completed result it returns True at its first
\* test, without touching the connection; on a result that is not completed
\* and whose deadline has passed it returns False there, changing no field
\* and consuming no message; otherwise it enters poll_all, once, and when
\* poll_all has drained the connection it returns the flag as it is then.
\* It is never inside serve.
C15_ReadyQuery ==
    [][\A t \in Threads :
         /\ (op[t] = "ready" /\ Leaves(t, "r_check") /\ is_ready) =>
               /\ ReadyReturns(t, "True")
               /\ UNCHANGED <<result, conn, invoked>>
         /\ (op[t] = "ready" /\ Leaves(t, "r_check") /\ Expired) =>
               /\ ReadyReturns(t, "False")
               /\ UNCHANGED <<result, conn, invoked>>
         /\ (op[t] = "ready" /\ Leaves(t, "r_check") /\ ~is_ready /\ ~Expired) =>
               /\ pc'[t] = "r_poll"
               /\ UNCHANGED <<result, conn, invoked>>
         /\ (op[t] = "ready" /\ pc[t] = "r_poll" /\ pc'[t] = "idle") =>
               /\ ~avail
               /\ ReadyReturns(t, IF is_ready THEN "True" ELSE "False")
         /\ (op[t] = "ready" /\ pc[t] # "r_check") => pc'[t] # "r_check"
         /\ op'[t] = "ready" => ~InServe(t)']_vars

\* a ready query has answered False on an expired result, and the message
\* that was buffered is still there
C15_Witness ==
    \E t \in Threads :
        /\ res[t] = [op |-> "ready", kind |-> "False", val |-> None]
        /\ Expired
        /\ avail
        /\ lastCall = "none"

\* ---- C16 ------------------------------------------------------------------
\* C16: the error query. When its ready query reported true, error answers
\* the stored is_exc of a ready result, which is true or false; when its
\* ready query reported false (at the first tests or after the drain) error
\* answers False; and on a result that is not ready, pending or expired,
\* error answers False.
C16_ErrorQuery ==
    [][\A t \in Threads :
         (op[t] = "error" /\ pc[t] # "idle" /\ pc'[t] = "idle") =>
            /\ res'[t].op = "error"
            /\ pc[t] \in {"e_exc", "r_check", "r_poll"}
            /\ pc[t] = "e_exc" =>
                  /\ is_ready
                  /\ res'[t].kind = is_exc
                  /\ is_exc \in {"True", "False"}
            /\ pc[t] \in {"r_check", "r_poll"} => res'[t].kind = "False"
            /\ ~is_ready => res'[t].kind = "False"]_vars

\* the error query has answered True on a result completed with an exception
C16_Witness ==
    \E t \in Threads :
        /\ res[t] = [op |-> "error", kind |-> "True", val |-> None]
        /\ is_ready
        /\ is_exc = "True"

\* ---- C17 ------------------------------------------------------------------
\* the step is a set_expiry call (it starts and returns in one step)
IsSetExpiry ==
    \E t \in Threads :
        /\ pc[t] = "idle"
        /\ calls' = calls + 1
        /\ pc' = pc
        /\ res' = [res EXCEPT ![t] = [op |-> "set_expiry", kind |-> "ok", val |-> None]]

\* C17: deadline frame. A fresh result has the deadline "never"; a set_expiry
\* call replaces the deadline by "never" or by now plus the timeout given,
\* whatever it was; and no step of __call__, wait, add_callback, value, ready,
\* error or expired, nor the passing of time, changes the deadline.
C17_DeadlineFrame ==
    /\ ttl = Never
    /\ [][/\ IsSetExpiry =>
                \/ ttl' = Never
                \/ \E s \in Timeouts : ttl' = [finite |-> TRUE, tmax |-> now + s]
          /\ ~IsSetExpiry => ttl' = ttl]_vars

\* the deadline set before everything else is still there after a callback
\* was registered and the result completed
C17_Witness ==
    /\ ttl = [finite |-> TRUE, tmax |-> 1]
    /\ ~lateExpiry
    /\ is_ready
    /\ ~Dispatching
    /\ invoked # <<>>

\* ---- C18 ------------------------------------------------------------------
\* C18: callback list invariant. In every state in which the result is ready
\* and no __call__ is running (an accepted __call__ has returned), the
\* callback list is empty.
C18_ListEmptyAfterCall == (is_ready /\ ~Dispatching) => callbacks = <<>>

\* ---- C19 ------------------------------------------------------------------
\* C19: outcome visibility. Whatever a value access hands to its caller after
\* it has seen the event set (a payload returned, or raised) is the pair of
\* arguments of one single __call__: never an unset field, never the is_exc
\* of one call with the payload of another.
C19_NoMixedPair ==
    \A t \in Threads :
        (res[t].op = "value" /\ res[t].kind \in {"return", "raise"})
            => ValueDelivered(t)

\* ---- C20 ------------------------------------------------------------------
\* what a callback finds when it uses the result: the event is set and both
\* fields are stored, so that a wait (or value) skips its loop and does not
\* call serve, and an add_callback takes the invoking branch
SeesCompleted ==
    /\ is_ready
    /\ is_exc \in {"True", "False"}
    /\ obj # None
    /\ ~LoopTest
    /\ AddBranch = "a_invoke"

\* C20: callbacks only ever see a completed result. At every invocation of a
\* callback, by the loop of __call__ or by add_callback, the result is ready
\* with its outcome stored, and it still is when the callback returns: a
\* value access or an add_callback made from inside the callback does not
\* enter serve and does not block.
C20_CallbacksSeeCompleted ==
    [][invoked' # invoked =>
          /\ Len(invoked') = Len(invoked) + 1
          /\ SeesCompleted
          /\ SeesCompleted']_vars

\* one callback was invoked by __call__'s loop and another by add_callback
C20_Witness ==
    /\ \E i \in 1..Len(invoked) : invoked[i].by = "call"
    /\ \E j \in 1..Len(invoked) : invoked[j].by = "add_callback"
    /\ is_ready

====
